---- MODULE Spec2Model ----
(***************************************************************************)
(* Update delivery of the Telegram bot binding (types.go).                 *)
(*                                                                         *)
(* UpdatesChannel is a receive-only Go channel of Update.  One producer    *)
(* (the ingestion source) sends and may close it; consumers receive from   *)
(* it and may call Clear, which is the loop                                *)
(*     for len(ch) != 0 { <-ch }                                           *)
(* Every evaluation of len(ch) and every channel operation is one atomic   *)
(* step; goroutines interleave between steps.                              *)
(***************************************************************************)
EXTENDS Integers, Sequences, FiniteSets, TLC

\* ---------------------------------------------------------------- bounds
Capacity == 2          \* buffer size the channel was made with
MaxSend == 3           \* updates the producer sends in one run
MaxClears == 1         \* Clear calls in one run
FirstUpdateID == 5     \* identifier of the first update sent

Consumers == {"c1", "c2"}

VARIABLES
    buf,          \* the channel's buffer, oldest update first
    closed,       \* the channel has been closed
    prodPc,       \* producer: "idle", "send" (inside ch <- u), "stopped"
    sent,         \* updates whose send has completed, in order
    bufAtClose,   \* the buffer at the moment of close
    pc,           \* consumer: "idle", "recv", "len" (Clear: len(ch) != 0),
                  \*           "drop" (Clear: <-ch)
    received,     \* updates each consumer got from receive, in order
    eos,          \* the consumer's receive has returned end-of-stream
    calls,        \* Clear calls each consumer has made
    snapshot,     \* buffer at the start of the consumer's latest Clear
    removed,      \* updates dropped by the consumer's latest Clear
    sentAtCall,   \* Len(sent) at the start of the latest Clear
    returned,     \* the latest Clear has returned
    sentAtReturn, \* Len(sent) when the latest Clear returned
    arg,          \* the input handed to a decoder or an accessor
    out           \* what the decoder or the accessors gave back

vars == <<buf, closed, prodPc, sent, bufAtClose,
          pc, received, eos, calls, snapshot, removed, sentAtCall,
          returned, sentAtReturn, arg, out>>

prodVars == <<prodPc, sent, bufAtClose>>
clearVars == <<calls, snapshot, removed, sentAtCall, returned,
               sentAtReturn>>
pureVars == <<arg, out>>
chanVars == <<buf, closed, pc, received, eos, prodVars, clearVars>>

\* ------------------------------------------------- Go channel semantics
\* len(ch)
ChanLen(q) == Len(q)

\* variants of the send condition: a closed channel that still accepts, and a
\* channel that accepts beyond its capacity
ChanCanSendClosed(q, cl) == Len(q) < Capacity
ChanCanSendUnbounded(q, cl) == ~cl

\* ch <- u can complete: the channel is open and has room
ChanCanSend(q, cl) == ~cl /\ Len(q) < Capacity

\* variant: a receive that close does not wake
ChanCanRecvOpenOnly(q, cl) == q # <<>>

\* <-ch can complete: a buffered update, or the channel is closed
ChanCanRecv(q, cl) == q # <<>> \/ cl

\* variant: end-of-stream as soon as the channel is closed
ChanRecvOkClosedFirst(q, cl) == q # <<>> /\ ~cl

\* <-ch delivers a value (ok = true) rather than the zero Update
ChanRecvOk(q, cl) == q # <<>>

\* variant: the newest buffered update is delivered first
ChanFrontNewest(q) == q[Len(q)]

\* the value <-ch delivers, and what stays buffered
ChanFront(q) == Head(q)

\* variant: a receive that leaves the update in the buffer
ChanRestKeep(q) == q

ChanRest(q) == Tail(q)

\* Open / Draining / Closed of the stream, read off the channel
StreamState ==
    IF ~closed THEN "Open"
    ELSE IF buf # <<>> THEN "Draining" ELSE "Closed"

InClear(c) == pc[c] \in {"len", "drop"}

\* Clear calls made so far, by all consumers
RECURSIVE CallsOf(_)
CallsOf(S) ==
    IF S = {} THEN 0
    ELSE LET c == CHOOSE x \in S : TRUE IN calls[c] + CallsOf(S \ {c})

\* a fresh channel: nothing sent, nobody receiving
ChanIdle ==
    /\ buf = <<>>
    /\ closed = FALSE
    /\ prodPc = "idle"
    /\ sent = <<>>
    /\ bufAtClose = <<>>
    /\ pc = [c \in Consumers |-> "idle"]
    /\ received = [c \in Consumers |-> <<>>]
    /\ eos = [c \in Consumers |-> FALSE]
    /\ calls = [c \in Consumers |-> 0]
    /\ snapshot = [c \in Consumers |-> <<>>]
    /\ removed = [c \in Consumers |-> <<>>]
    /\ sentAtCall = [c \in Consumers |-> 0]
    /\ returned = [c \in Consumers |-> FALSE]
    /\ sentAtReturn = [c \in Consumers |-> 0]

Init ==
    /\ ChanIdle
    /\ arg = <<>>
    /\ out = <<>>

\* ------------------------------------------------------------- producer
NextUpdateID == FirstUpdateID + Len(sent)

\* the ingestion source starts ch <- update
SendCall ==
    /\ prodPc = "idle"
    /\ Len(sent) < MaxSend
    /\ prodPc' = "send"
    /\ UNCHANGED <<buf, closed, sent, bufAtClose,
                   pc, received,
                   eos>>
    /\ UNCHANGED clearVars
    /\ UNCHANGED pureVars

\* ch <- update completes
SendDone ==
    /\ prodPc = "send"
    /\ ChanCanSend(buf, closed)
    /\ buf' = Append(buf, NextUpdateID)
    /\ sent' = Append(sent, NextUpdateID)
    /\ prodPc' = "idle"
    /\ UNCHANGED <<closed, bufAtClose, pc, received, eos>>
    /\ UNCHANGED clearVars
    /\ UNCHANGED pureVars

\* ch <- update on a closed channel panics: the send never completes
SendPanic ==
    /\ prodPc = "send"
    /\ closed
    /\ prodPc' = "stopped"
    /\ UNCHANGED <<buf, closed, sent, bufAtClose,
                   pc, received,
                   eos>>
    /\ UNCHANGED clearVars
    /\ UNCHANGED pureVars

\* close(ch): the stream leaves Open
Close ==
    /\ ~closed
    /\ closed' = TRUE
    /\ bufAtClose' = buf
    /\ prodPc' = IF prodPc = "idle" THEN "stopped" ELSE prodPc
    /\ UNCHANGED <<buf, sent, pc, received, eos>>
    /\ UNCHANGED clearVars
    /\ UNCHANGED pureVars

\* ------------------------------------------------------------- consumer
\* a consumer starts update := <-ch
RecvCall(c) ==
    /\ pc[c] = "idle"
    /\ pc' = [pc EXCEPT ![c] = "recv"]
    /\ eos' = [eos EXCEPT ![c] = FALSE]
    /\ UNCHANGED <<buf, closed, received>>
    /\ UNCHANGED prodVars
    /\ UNCHANGED clearVars
    /\ UNCHANGED pureVars

\* <-ch completes: the oldest buffered update, or end-of-stream
RecvDone(c) ==
    /\ pc[c] = "recv"
    /\ ChanCanRecv(buf, closed)
    /\ IF ChanRecvOk(buf, closed)
         THEN /\ received' = [received EXCEPT
                                 ![c] = Append(received[c], ChanFront(buf))]
              /\ buf' = ChanRest(buf)
              /\ eos' = [eos EXCEPT ![c] = FALSE]
         ELSE /\ eos' = [eos EXCEPT ![c] = TRUE]
              /\ UNCHANGED <<received, buf>>
    /\ pc' = [pc EXCEPT ![c] = "idle"]
    /\ UNCHANGED <<closed>>
    /\ UNCHANGED prodVars
    /\ UNCHANGED clearVars
    /\ UNCHANGED pureVars

\* ---------------------------------------------------------------- Clear
\* a consumer calls ch.Clear()
ClearCall(c) ==
    /\ pc[c] = "idle"
    /\ CallsOf(Consumers) < MaxClears
    /\ pc' = [pc EXCEPT ![c] = "len"]
    /\ calls' = [calls EXCEPT ![c] = @ + 1]
    /\ snapshot' = [snapshot EXCEPT ![c] = buf]
    /\ removed' = [removed EXCEPT ![c] = <<>>]
    /\ sentAtCall' = [sentAtCall EXCEPT ![c] = Len(sent)]
    /\ returned' = [returned EXCEPT ![c] = FALSE]
    /\ UNCHANGED <<buf, closed, received, eos, sentAtReturn>>
    /\ UNCHANGED prodVars
    /\ UNCHANGED pureVars

\* variant: Clear hands the loop to a goroutine and returns at once
ClearCheckDetached(c) ==
    /\ pc[c] = "len"
    /\ pc' = [pc EXCEPT ![c] = IF ChanLen(buf) # 0 THEN "drop" ELSE "idle"]
    /\ returned' = [returned EXCEPT ![c] = TRUE]
    /\ sentAtReturn' = [sentAtReturn EXCEPT
                           ![c] = IF returned[c] THEN @ ELSE Len(sent)]
    /\ UNCHANGED <<buf, closed, received, eos, calls, snapshot, removed,
                   sentAtCall>>
    /\ UNCHANGED prodVars
    /\ UNCHANGED pureVars

\* variant: the loop condition is len(ch) > 1
ClearCheckOffByOne(c) ==
    /\ pc[c] = "len"
    /\ IF ChanLen(buf) > 1
         THEN /\ pc' = [pc EXCEPT ![c] = "drop"]
              /\ UNCHANGED <<returned, sentAtReturn>>
         ELSE /\ pc' = [pc EXCEPT ![c] = "idle"]
              /\ returned' = [returned EXCEPT ![c] = TRUE]
              /\ sentAtReturn' = [sentAtReturn EXCEPT ![c] = Len(sent)]
    /\ UNCHANGED <<buf, closed, received, eos, calls, snapshot, removed,
                   sentAtCall>>
    /\ UNCHANGED prodVars
    /\ UNCHANGED pureVars

\* the loop condition  len(ch) != 0 ; when it is false Clear returns
ClearCheck(c) ==
    /\ pc[c] = "len"
    /\ IF ChanLen(buf) # 0
         THEN /\ pc' = [pc EXCEPT ![c] = "drop"]
              /\ UNCHANGED <<returned, sentAtReturn>>
         ELSE /\ pc' = [pc EXCEPT ![c] = "idle"]
              /\ returned' = [returned EXCEPT ![c] = TRUE]
              /\ sentAtReturn' = [sentAtReturn EXCEPT ![c] = Len(sent)]
    /\ UNCHANGED <<buf, closed, received, eos, calls, snapshot, removed,
                   sentAtCall>>
    /\ UNCHANGED prodVars
    /\ UNCHANGED pureVars

\* variant: an if instead of the for loop, one update dropped per call
ClearDropOnce(c) ==
    /\ pc[c] = "drop"
    /\ ChanCanRecv(buf, closed)
    /\ IF ChanRecvOk(buf, closed)
         THEN /\ removed' = [removed EXCEPT
                               ![c] = Append(removed[c], ChanFront(buf))]
              /\ buf' = ChanRest(buf)
         ELSE UNCHANGED <<removed, buf>>
    /\ pc' = [pc EXCEPT ![c] = "idle"]
    /\ returned' = [returned EXCEPT ![c] = TRUE]
    /\ sentAtReturn' = [sentAtReturn EXCEPT ![c] = Len(sent)]
    /\ UNCHANGED <<closed, received, eos, calls, snapshot, sentAtCall>>
    /\ UNCHANGED prodVars
    /\ UNCHANGED pureVars

\* variant: the loop body takes the newest buffered update
ClearDropNewest(c) ==
    /\ pc[c] = "drop"
    /\ ChanCanRecv(buf, closed)
    /\ IF ChanRecvOk(buf, closed)
         THEN /\ removed' = [removed EXCEPT
                               ![c] = Append(removed[c], buf[Len(buf)])]
              /\ buf' = SubSeq(buf, 1, Len(buf) - 1)
         ELSE UNCHANGED <<removed, buf>>
    /\ pc' = [pc EXCEPT ![c] = "len"]
    /\ UNCHANGED <<closed, received, eos, calls, snapshot,
                   sentAtCall, returned, sentAtReturn>>
    /\ UNCHANGED prodVars
    /\ UNCHANGED pureVars

\* the loop body  <-ch ; the value is thrown away
ClearDrop(c) ==
    /\ pc[c] = "drop"
    /\ ChanCanRecv(buf, closed)
    /\ IF ChanRecvOk(buf, closed)
         THEN /\ removed' = [removed EXCEPT
                               ![c] = Append(removed[c], ChanFront(buf))]
              /\ buf' = ChanRest(buf)
         ELSE UNCHANGED <<removed, buf>>
    /\ pc' = [pc EXCEPT ![c] = "len"]
    /\ UNCHANGED <<closed, received, eos, calls, snapshot,
                   sentAtCall, returned, sentAtReturn>>
    /\ UNCHANGED prodVars
    /\ UNCHANGED pureVars

Next ==
    \/ SendCall
    \/ SendDone
    \/ SendPanic
    \/ Close
    \/ \E c \in Consumers : RecvCall(c)
    \/ \E c \in Consumers : RecvDone(c)
    \/ \E c \in Consumers : ClearCall(c)
    \/ \E c \in Consumers : ClearCheck(c)
    \/ \E c \in Consumers : ClearDrop(c)

Spec == Init /\ [][Next]_vars

\* a receive or a channel operation that can complete is eventually taken
FairSpec ==
    /\ Spec
    /\ \A c \in Consumers : WF_vars(RecvDone(c))

TypeOK ==
    /\ closed \in BOOLEAN
    /\ prodPc \in {"idle", "send", "stopped"}
    /\ \A c \in Consumers : pc[c] \in {"idle", "recv", "len", "drop"}
    /\ Len(sent) <= MaxSend

\* the updates in a sequence, and the position of an update in send order
Range(q) == {q[i] : i \in 1..Len(q)}
SendIndex(u) == u - FirstUpdateID + 1

\* ------------------------------------------------------------------ C1
\* C1: Clear never blocks: no step of Clear is a receive that waits on an
\* empty buffer of an open channel.
ClearNeverWaits ==
    \A c \in Consumers : pc[c] = "drop" => ChanCanRecv(buf, closed)

\* ------------------------------------------------------------------ C2
\* C2: a Clear call removes at most as many updates as were buffered at the
\* moment of the call, also while the producer keeps sending.
ClearRemovalsBounded ==
    \A c \in Consumers : Len(removed[c]) <= Len(snapshot[c])

\* ------------------------------------------------------------------ C3
\* C3: an update whose send completes after a Clear call has returned is
\* never removed by that call: every update the call dropped was sent
\* before it returned, and once it has returned it drops nothing more, so
\* a later update leaves the buffer only through a receive or a new Clear.
ClearDropsNothingSentAfterReturn ==
    /\ [](\A c \in Consumers :
             returned[c] =>
                 \A u \in Range(removed[c]) : SendIndex(u) <= sentAtReturn[c])
    /\ [][\A c \in Consumers :
             (returned[c] /\ returned'[c]) => removed'[c] = removed[c]]_vars

\* a Clear call dropped an update, returned, and a later update was sent
ClearReturnedThenSent ==
    \E c \in Consumers :
        /\ returned[c]
        /\ removed[c] # <<>>
        /\ Len(sent) > sentAtReturn[c]
        /\ sent[Len(sent)] \in Range(buf)

\* ------------------------------------------------------------------ C4
\* updates that have left the buffer so far
Taken == Len(sent) - Len(buf)

\* no send has completed since consumer c called Clear
NoSendDuring(c) == Len(sent) = sentAtCall[c]

\* since consumer c called Clear, only that call took updates off the buffer
NoTakeDuring(c) ==
    Taken - (sentAtCall[c] - Len(snapshot[c])) = Len(removed[c])

\* no send completed during the Clear call of c that has returned
QuietReturn(c) == returned[c] /\ sentAtReturn[c] = sentAtCall[c]

\* C4: with no concurrent send or receive, Clear on a buffer of n updates
\* removes exactly those n, in order, and returns with the buffer empty
\* (for n = 0: it has removed nothing, the stream is as it was).
ClearAloneRemovesAll ==
    [][\A c \in Consumers :
          (pc[c] = "len" /\ pc'[c] = "idle" /\ NoSendDuring(c) /\ NoTakeDuring(c))
              => /\ removed'[c] = snapshot[c]
                 /\ buf' = <<>>
                 /\ sent' = sent /\ received' = received]_vars

\* an undisturbed Clear of a full buffer has returned
ClearAloneReturnedFromFull ==
    \E c \in Consumers :
        /\ QuietReturn(c)
        /\ Len(snapshot[c]) = Capacity
        /\ removed[c] = snapshot[c]

\* ------------------------------------------------------------------ C5
\* C5: when no send completed during a Clear call, every update the caller
\* receives after the call returned was sent after the call; a receive on
\* the emptied open stream cannot complete before such a send.
NoStaleUpdateAfterClear ==
    /\ [][\A c \in Consumers :
             (QuietReturn(c) /\ received'[c] # received[c]) =>
                 SendIndex(received'[c][Len(received'[c])]) > sentAtCall[c]]_vars
    /\ [](\A c \in Consumers :
             (QuietReturn(c) /\ pc[c] = "recv" /\ ~closed
                  /\ Len(sent) = sentAtCall[c]) => ~ENABLED RecvDone(c))

\* after a Clear that dropped a backlog, the caller received a fresh update
ReceivedFreshAfterClear ==
    \E c \in Consumers :
        /\ QuietReturn(c)
        /\ removed[c] # <<>>
        /\ \E i \in 1..Len(received[c]) :
               SendIndex(received[c][i]) > sentAtCall[c]

\* ------------------------------------------------------------------ C6
NoClear == \A d \in Consumers : calls[d] = 0
OnlyReceiver(c) == \A d \in Consumers \ {c} : received[d] = <<>>

\* C6: with one consumer receiving and no Clear, the updates received
\* followed by the updates still buffered are exactly the updates sent, in
\* send order: nothing is reordered, duplicated or skipped.
FifoOrder ==
    \A c \in Consumers :
        (NoClear /\ OnlyReceiver(c)) => received[c] \o buf = sent

\* one consumer has read back three updates, the first being FirstUpdateID
ReadBackThree ==
    \E c \in Consumers :
        /\ NoClear /\ OnlyReceiver(c)
        /\ Len(received[c]) >= 3
        /\ received[c][1] = FirstUpdateID
        /\ received[c][3] = FirstUpdateID + 2

\* ------------------------------------------------------------------ C7
\* C7: when the stream is closed with k updates buffered, one consumer with
\* no Clear receives those k updates in send order, as the last k of all it
\* receives, and only then end-of-stream: at end-of-stream it has received
\* every update sent.
DrainingKeepsOrder ==
    \A c \in Consumers :
        (NoClear /\ OnlyReceiver(c) /\ closed) =>
            /\ \E i \in 0..Len(sent) :
                   SubSeq(sent, i + 1, Len(sent)) = bufAtClose
            /\ Len(received[c]) + Len(buf) = Len(sent)
            /\ \A i \in 1..Len(received[c]) : received[c][i] = sent[i]
            /\ (eos[c] => received[c] = sent /\ buf = <<>>)

\* the stream was closed with two updates buffered and drained to the end
DrainedTwoAfterClose ==
    \E c \in Consumers :
        /\ NoClear /\ OnlyReceiver(c)
        /\ closed /\ Len(bufAtClose) >= 2
        /\ eos[c] /\ received[c] = sent

\* ------------------------------------------------------------------ C8
\* C8: the stream never goes back: not from Draining or Closed to Open, not
\* from Closed to Draining; no send completes once it has left Open; once
\* Closed no receive and no Clear obtains an update.
StreamNeverReopens ==
    [][/\ (StreamState # "Open" => StreamState' # "Open")
       /\ (StreamState = "Closed" => StreamState' = "Closed")
       /\ (StreamState # "Open" => sent' = sent)
       /\ (StreamState = "Closed" =>
              /\ received' = received
              /\ \A c \in Consumers : Len(removed'[c]) <= Len(removed[c]))]_vars

\* the stream went through Draining to Closed, with a send pending at close
ClosedAfterDraining ==
    /\ StreamState = "Closed"
    /\ bufAtClose # <<>>
    /\ prodPc = "stopped"
    /\ Len(sent) < MaxSend
    /\ \E c \in Consumers : eos[c]

\* ------------------------------------------------------------------ C9
\* C9: once the stream is closed and its buffer empty, every receive that
\* is pending eventually returns end-of-stream.
CloseWakesReceivers ==
    \A c \in Consumers :
        (closed /\ buf = <<>> /\ pc[c] = "recv") ~> (pc[c] = "idle" /\ eos[c])

\* a receive that was pending on the closed, empty stream has returned
\* end-of-stream, without any update having been sent
PendingReceiveGotEndOfStream ==
    \E c \in Consumers :
        /\ closed /\ sent = <<>>
        /\ pc[c] = "idle" /\ eos[c]

\* ----------------------------------------------------------------- C10
\* C10: the buffer never holds more than Capacity updates, and while it is
\* full a pending send does not complete and no buffered update is lost:
\* the only change to the buffer is the removal of its oldest update.
BoundedWithBackPressure ==
    /\ [](Len(buf) <= Capacity)
    /\ [][Len(buf) = Capacity =>
             /\ sent' = sent
             /\ (prodPc = "send" => prodPc' = "send" \/ closed)
             /\ (buf' = buf \/ buf' = Tail(buf))]_vars

\* a send issued on a full buffer is waiting for room
SendWaitsOnFullBuffer ==
    prodPc = "send" /\ Len(buf) = Capacity /\ ~closed
\* ----------------------------------------------------------------- C11
\* how often update u occurs in a sequence
CountIn(u, q) == Cardinality({i \in 1..Len(q) : q[i] = u})

RECURSIVE CountOver(_, _, _)
CountOver(u, f, S) ==
    IF S = {} THEN 0
    ELSE LET c == CHOOSE x \in S : TRUE
         IN CountIn(u, f[c]) + CountOver(u, f, S \ {c})

\* the places update u is in: buffered, returned by a receive, or dropped by
\* a consumer's latest Clear
Holders(u) ==
    CountIn(u, buf) + CountOver(u, received, Consumers)
        + CountOver(u, removed, Consumers)

MaxTextLen == 4        \* longest text tried, besides the two examples

Alphabet == {"/", "@", " ", "\t", "\n", "a", "B"}

\* "/start@mybot hello world" and "hello"
ExampleCommand ==
    <<"/", "s", "t", "a", "r", "t", "@", "m", "y", "b", "o", "t", " ",
      "h", "e", "l", "l", "o", " ", "w", "o", "r", "l", "d">>
ExamplePlain == <<"h", "e", "l", "l", "o">>

Texts ==
    UNION {[1..n -> Alphabet] : n \in 0..MaxTextLen}
        \cup {ExampleCommand, ExamplePlain}

\* strings.Index(s, ch): 0-based position of the first ch in s, or -1
Index(s, ch) ==
    IF \E i \in 1..Len(s) : s[i] = ch
      THEN (CHOOSE i \in 1..Len(s) :
                s[i] = ch /\ \A j \in 1..(i - 1) : s[j] # ch) - 1
      ELSE -1

\* strings.SplitN(s, sep, 2) for a one-character sep
SplitN2(s, sep) ==
    LET i == Index(s, sep)
    IN IF i = -1 THEN <<s>>
       ELSE <<SubSeq(s, 1, i), SubSeq(s, i + 2, Len(s))>>

\* variant: a '/' anywhere in the text makes it a command
IsCommandAnywhere(t) == \E i \in 1..Len(t) : t[i] = "/"

\* m.Text != "" && m.Text[0] == '/'
IsCommand(t) == t # <<>> /\ t[1] = "/"

\* variant: Command guarded against the empty text only
CommandUnguarded(t) ==
    IF t = <<>> THEN <<>>
    ELSE LET first == SplitN2(t, " ")[1]
             command == SubSeq(first, 2, Len(first))
             i == Index(command, "@")
         IN IF i # -1 THEN SubSeq(command, 1, i) ELSE command

\* variant: the bot name after "@" is left in the command
CommandKeepsMention(t) ==
    IF ~IsCommand(t) THEN <<>>
    ELSE Tail(SplitN2(t, " ")[1])

\* strings.SplitN(m.Text, " ", 2)[0][1:], cut at the first "@"
Command(t) ==
    IF ~IsCommand(t) THEN <<>>
    ELSE LET command == Tail(SplitN2(t, " ")[1])
             i == Index(command, "@")
         IN IF i # -1 THEN SubSeq(command, 1, i) ELSE command

\* variant: the text is split at every space and the second piece returned
CommandArgumentsFirstWord(t) ==
    IF ~IsCommand(t) THEN <<>>
    ELSE LET split == SplitN2(t, " ")
         IN IF Len(split) # 2 THEN <<>>
            ELSE SplitN2(split[2], " ")[1]

\* variant: a space at the head of the arguments is trimmed away
CommandArgumentsTrimmed(t) ==
    IF ~IsCommand(t) THEN <<>>
    ELSE LET split == SplitN2(t, " ")
         IN IF Len(split) # 2 THEN <<>>
            ELSE IF split[2] # <<>> /\ Head(split[2]) = " "
                   THEN Tail(split[2])
                   ELSE split[2]

\* strings.SplitN(m.Text, " ", 2)[1], or "" when there is no second piece
CommandArguments(t) ==
    IF ~IsCommand(t) THEN <<>>
    ELSE LET split == SplitN2(t, " ")
         IN IF Len(split) # 2 THEN <<>>
            ELSE SplitN2(t, " ")[2]

\* what a call gave back: not made yet, a value, or a nil-pointer panic
Pending == [state |-> "pending", bool |-> FALSE, str |-> <<>>]
Panicked == [state |-> "panic", bool |-> FALSE, str |-> <<>>]
ReturnedBool(b) == [state |-> "ok", bool |-> b, str |-> <<>>]
ReturnedStr(x) == [state |-> "ok", bool |-> FALSE, str |-> x]

\* update.Message is nil, or points to a Message with some Text
CmdInit ==
    /\ ChanIdle
    /\ arg \in [present : {TRUE}, text : Texts]
                 \cup {[present |-> FALSE, text |-> <<>>]}
    /\ out = [isCommand |-> Pending, command |-> Pending,
              arguments |-> Pending]

\* update.Message.IsCommand(): m.Text on a nil m panics
CallIsCommand ==
    /\ out.isCommand.state = "pending"
    /\ out' = [out EXCEPT !.isCommand =
                  IF arg.present THEN ReturnedBool(IsCommand(arg.text))
                  ELSE Panicked]
    /\ UNCHANGED <<arg, chanVars>>

\* update.Message.Command(): its first statement calls m.IsCommand()
CallCommand ==
    /\ out.command.state = "pending"
    /\ out' = [out EXCEPT !.command =
                  IF arg.present THEN ReturnedStr(Command(arg.text))
                  ELSE Panicked]
    /\ UNCHANGED <<arg, chanVars>>

\* update.Message.CommandArguments()
CallCommandArguments ==
    /\ out.arguments.state = "pending"
    /\ out' = [out EXCEPT !.arguments =
                  IF arg.present THEN ReturnedStr(CommandArguments(arg.text))
                  ELSE Panicked]
    /\ UNCHANGED <<arg, chanVars>>

CmdNext ==
    \/ CallIsCommand
    \/ CallCommand
    \/ CallCommandArguments

CmdSpec == CmdInit /\ [][CmdNext]_vars

\* ----------------------------------------------------------------- C16
\* C16: IsCommand is true exactly when the text is non-empty and its first
\* character is '/'; a '/' at a later position does not make a command.
IsCommandIffSlashFirst ==
    (arg.present /\ out.isCommand.state = "ok") =>
        (out.isCommand.bool <=> (Len(arg.text) >= 1 /\ Head(arg.text) = "/"))

\* IsCommand returned false for a text with '/' only after the first place
SlashLaterIsNoCommand ==
    /\ arg.present
    /\ out.isCommand.state = "ok" /\ ~out.isCommand.bool
    /\ \E i \in 2..Len(arg.text) : arg.text[i] = "/"

\* ----------------------------------------------------------------- C17
\* the characters that end the command token according to the description
TokenStops == {" ", "\t", "\n", "@"}

\* C17: for a command message, Command() is the run of characters after the
\* leading '/' that ends before the first space, tab, newline or '@',
\* unchanged in case.
CommandEndsAtWhitespaceOrMention ==
    (/\ arg.present
     /\ Len(arg.text) >= 1 /\ Head(arg.text) = "/"
     /\ out.command.state = "ok") =>
        LET rest == Tail(arg.text)
            c == out.command.str
        IN /\ Len(c) <= Len(rest)
           /\ c = SubSeq(rest, 1, Len(c))
           /\ \A i \in 1..Len(c) : c[i] \notin TokenStops
           /\ (Len(c) = Len(rest) \/ rest[Len(c) + 1] \in TokenStops)

\* ----------------------------------------------------------------- C18
\* C18: for a command message, CommandArguments() is everything after the
\* first space of the text, later spaces included, and empty when the text
\* has no space; "/start@mybot hello world" gives the command "start" and
\* the arguments "hello world".
ArgumentsAreTextAfterFirstSpace ==
    (/\ arg.present
     /\ Len(arg.text) >= 1 /\ Head(arg.text) = "/"
     /\ out.arguments.state = "ok") =>
        LET t == arg.text
            a == out.arguments.str
        IN /\ IF \A i \in 1..Len(t) : t[i] # " "
                THEN a = <<>>
                ELSE \E k \in 1..Len(t) :
                        /\ t[k] = " "
                        /\ \A j \in 1..(k - 1) : t[j] # " "
                        /\ a = SubSeq(t, k + 1, Len(t))
           /\ (t = ExampleCommand =>
                 /\ a = <<"h", "e", "l", "l", "o", " ", "w", "o", "r", "l", "d">>
                 /\ (out.command.state = "ok" =>
                        out.command.str = <<"s", "t", "a", "r", "t">>))

\* both accessors have answered for "/start@mybot hello world"
ExampleCommandParsed ==
    /\ arg.present /\ arg.text = ExampleCommand
    /\ out.command.state = "ok"
    /\ out.arguments.state = "ok"
    /\ Len(out.arguments.str) = 11

\* ----------------------------------------------------------------- C19
\* C19: for a message whose text is empty or does not start with '/',
\* IsCommand() is false and Command() and CommandArguments() are empty.
NonCommandGivesEmpty ==
    (arg.present /\ (arg.text = <<>> \/ Head(arg.text) # "/")) =>
        /\ (out.isCommand.state = "ok" => ~out.isCommand.bool)
        /\ (out.command.state = "ok" => out.command.str = <<>>)
        /\ (out.arguments.state = "ok" => out.arguments.str = <<>>)

\* the three accessors have answered for "hello"
ExamplePlainParsed ==
    /\ arg.present /\ arg.text = ExamplePlain
    /\ out.isCommand.state = "ok"
    /\ out.command.state = "ok"
    /\ out.arguments.state = "ok"

\* ----------------------------------------------------------------- C20
\* C20: for an update without a message, asking whether it is a command and
\* asking for its command name do not fail and give false and "".
NilMessageGivesEmpty ==
    ~arg.present =>
        /\ out.isCommand.state # "panic"
        /\ out.command.state # "panic"
        /\ (out.isCommand.state = "ok" => ~out.isCommand.bool)
        /\ (out.command.state = "ok" => out.command.str = <<>>)

\* ======================================================================
\* Decoding: json.Unmarshal into Update, Message and APIResponse
\* ======================================================================
\* A JSON object is a record of its keys; the value of a key is <<>> when
\* the key is missing and <<v>> when it is there.  A pointer field of the
\* decoded struct is <<>> when nil and <<v>> when set.

MaxReplyDepth == 2     \* deepest reply_to_message nesting in a raw message

\* raw message objects: message d + 1 replies to a message of depth below d
RECURSIVE RawMessagesUpTo(_)
RawMessagesUpTo(d) ==
    IF d = 0 THEN {[message_id |-> 1, reply_to_message |-> <<>>]}
    ELSE {[message_id |-> d + 1, reply_to_message |-> r] :
             r \in {<<>>} \cup {<<m>> : m \in RawMessagesUpTo(d - 1)}}

RawMessages == RawMessagesUpTo(MaxReplyDepth)
PlainRawMessage == [message_id |-> 1, reply_to_message |-> <<>>]

\* Message: every tagged field is filled from its key, and the
\* ReplyToMessage pointer is decoded as a Message in turn
RECURSIVE DecodeMessage(_)
DecodeMessage(raw) ==
    [MessageID |-> raw.message_id,
     ReplyToMessage |->
         IF raw.reply_to_message = <<>> THEN <<>>
         ELSE <<DecodeMessage(raw.reply_to_message[1])>>]

DecodeOptMessage(v) == IF v = <<>> THEN <<>> ELSE <<DecodeMessage(v[1])>>

\* InlineQuery, ChosenInlineResult, CallbackQuery: only the identifier is kept
DecodeOptQuery(v) == IF v = <<>> THEN <<>> ELSE <<[ID |-> v[1].id]>>

\* variant: the CallbackQuery field carries the tag of ChosenInlineResult
DecodeUpdateMistagged(raw) ==
    [UpdateID |-> raw.update_id,
     Message |-> DecodeOptMessage(raw.message),
     EditedMessage |-> DecodeOptMessage(raw.edited_message),
     ChannelPost |-> DecodeOptMessage(raw.channel_post),
     EditedChannelPost |-> DecodeOptMessage(raw.edited_channel_post),
     InlineQuery |-> DecodeOptQuery(raw.inline_query),
     ChosenInlineResult |-> DecodeOptQuery(raw.chosen_inline_result),
     CallbackQuery |-> DecodeOptQuery(raw.chosen_inline_result)]

\* Update: each pointer field is set exactly when its key is in the object
DecodeUpdate(raw) ==
    [UpdateID |-> raw.update_id,
     Message |-> DecodeOptMessage(raw.message),
     EditedMessage |-> DecodeOptMessage(raw.edited_message),
     ChannelPost |-> DecodeOptMessage(raw.channel_post),
     EditedChannelPost |-> DecodeOptMessage(raw.edited_channel_post),
     InlineQuery |-> DecodeOptQuery(raw.inline_query),
     ChosenInlineResult |-> DecodeOptQuery(raw.chosen_inline_result),
     CallbackQuery |-> DecodeOptQuery(raw.callback_query)]

\* the optional fields of Update, in the order the struct declares them
PayloadFields ==
    <<"Message", "EditedMessage", "ChannelPost", "EditedChannelPost",
      "InlineQuery", "ChosenInlineResult", "CallbackQuery">>

\* the optional fields of a decoded Update that are not nil
Populated(u) == {f \in {PayloadFields[i] : i \in 1..Len(PayloadFields)} :
                    u[f] # <<>>}

RawQuery == [id |-> "q"]

\* raw update objects: any combination of the seven keys
RawUpdates ==
    [update_id : {1, 2},
     message : {<<>>} \cup {<<m>> : m \in RawMessages},
     edited_message : {<<>>, <<PlainRawMessage>>},
     channel_post : {<<>>, <<PlainRawMessage>>},
     edited_channel_post : {<<>>, <<PlainRawMessage>>},
     inline_query : {<<>>, <<RawQuery>>},
     chosen_inline_result : {<<>>, <<RawQuery>>},
     callback_query : {<<>>, <<RawQuery>>}]

UpdInit ==
    /\ ChanIdle
    /\ arg \in RawUpdates
    /\ out = <<>>

\* json.Unmarshal(bytes, &update) for one raw update object
UnmarshalUpdate ==
    /\ out = <<>>
    /\ out' = <<DecodeUpdate(arg)>>
    /\ UNCHANGED <<arg, chanVars>>

UpdNext == UnmarshalUpdate

UpdSpec == UpdInit /\ [][UpdNext]_vars

\* the keys a raw update object carries, as the fields they are tagged to
RawPopulated(raw) ==
    {PayloadFields[i] : i \in {k \in 1..Len(PayloadFields) :
        <<raw.message, raw.edited_message, raw.channel_post,
          raw.edited_channel_post, raw.inline_query,
          raw.chosen_inline_result, raw.callback_query>>[k] # <<>>}}

\* the first field of PayloadFields that is in the set fs
FirstInOrder(fs) ==
    PayloadFields[CHOOSE i \in 1..Len(PayloadFields) :
        /\ PayloadFields[i] \in fs
        /\ \A j \in 1..(i - 1) : PayloadFields[j] \notin fs]

\* C13: a raw update object with more than one payload key never decodes to
\* an Update exposing two payloads: the decoded value has exactly one
\* optional field set, the first of the object's keys in declaration order
\* (the decoder modelled here has no way to reject the object).
AtMostOnePayloadExposed ==
    (out # <<>> /\ Cardinality(RawPopulated(arg)) > 1)
        => Populated(out[1]) = {FirstInOrder(RawPopulated(arg))}

\* the ReplyToMessage chain below a decoded message
RECURSIVE ReplyDepth(_)
ReplyDepth(m) ==
    IF m.ReplyToMessage = <<>> THEN 0
    ELSE 1 + ReplyDepth(m.ReplyToMessage[1])

\* C15: the message a decoded message replies to carries no reply of its
\* own: the reply chain of a decoded Message is at most one deep, however
\* deep the chain of the raw object was.
ReplyChainTruncated ==
    (out # <<>> /\ out[1].Message # <<>>)
        => ReplyDepth(out[1].Message[1]) <= 1

\* ----------------------------------------------------------------------
\* Decode, send and receive of one poll batch
\* ----------------------------------------------------------------------

\* the raw update object with identifier id carrying only the key of field
\* f (no key at all when f is not a payload field)
RawUpdateOf(id, f) ==
    [update_id |-> id,
     message |-> IF f = "Message" THEN <<PlainRawMessage>> ELSE <<>>,
     edited_message |->
         IF f = "EditedMessage" THEN <<PlainRawMessage>> ELSE <<>>,
     channel_post |-> IF f = "ChannelPost" THEN <<PlainRawMessage>> ELSE <<>>,
     edited_channel_post |->
         IF f = "EditedChannelPost" THEN <<PlainRawMessage>> ELSE <<>>,
     inline_query |-> IF f = "InlineQuery" THEN <<RawQuery>> ELSE <<>>,
     chosen_inline_result |->
         IF f = "ChosenInlineResult" THEN <<RawQuery>> ELSE <<>>,
     callback_query |-> IF f = "CallbackQuery" THEN <<RawQuery>> ELSE <<>>]

BatchKinds == {PayloadFields[i] : i \in 1..Len(PayloadFields)} \cup {"none"}

\* two-element raw update arrays, each element with at most one payload key
Batches ==
    {<<RawUpdateOf(1, f), RawUpdateOf(2, g)>> : f \in BatchKinds,
                                                 g \in BatchKinds}

ExampleBatch == <<RawUpdateOf(1, "Message"), RawUpdateOf(2, "CallbackQuery")>>

E2EInit ==
    /\ ChanIdle
    /\ arg \in Batches
    /\ out = <<>>

\* the ingestion source decodes the next object of the batch and sends the
\* Update on the channel
E2ESend ==
    /\ Len(sent) < Len(arg)
    /\ ChanCanSend(buf, closed)
    /\ LET u == DecodeUpdate(arg[Len(sent) + 1])
       IN  /\ buf' = Append(buf, u)
           /\ sent' = Append(sent, u)
    /\ UNCHANGED <<closed, prodPc, bufAtClose, pc, received, eos, clearVars,
                   pureVars>>

\* the consumer receives the next Update from the channel; out is what it
\* has received so far
E2EReceive ==
    /\ ChanRecvOk(buf, closed)
    /\ out' = Append(out, ChanFront(buf))
    /\ buf' = ChanRest(buf)
    /\ UNCHANGED <<arg, closed, prodVars, pc, received, eos, clearVars>>

E2ENext == E2ESend \/ E2EReceive

E2ESpec == E2EInit /\ [][E2ENext]_vars

\* C12: of a two-element raw array the consumer receives at most two
\* Updates, and once it has received two they are the array's elements in
\* order: each carries the identifier and exactly the payload of its raw
\* object; for the array (update 1 with only a message, update 2 with only
\* a callback query) the first has only Message set and the second only
\* CallbackQuery.
EndToEndInOrder ==
    /\ Len(out) <= 2
    /\ Len(out) = 2 =>
        /\ \A i \in 1..2 :
            /\ out[i].UpdateID = arg[i].update_id
            /\ Populated(out[i]) = RawPopulated(arg[i])
        /\ arg = ExampleBatch =>
            /\ out[1].UpdateID = 1 /\ Populated(out[1]) = {"Message"}
            /\ out[2].UpdateID = 2 /\ Populated(out[2]) = {"CallbackQuery"}

ExampleBatchReceived == arg = ExampleBatch /\ Len(out) = 2

\* ----------------------------------------------------------------------
\* The response envelope
\* ----------------------------------------------------------------------

\* the bytes of a result value (json.RawMessage), one character each
RawResults == {<<"t", "r", "u", "e">>, <<"[", "]">>, <<"[", " ", "]">>}

\* raw parameters objects: both keys are optional
RawParameters ==
    [migrate_to_chat_id : {<<>>, <<-100>>}, retry_after : {<<>>, <<5>>}]

\* raw envelope objects: any combination of the five keys
RawResponses ==
    [ok : {<<>>, <<TRUE>>, <<FALSE>>},
     result : {<<>>} \cup {<<r>> : r \in RawResults},
     error_code : {<<>>, <<400>>, <<429>>},
     description : {<<>>, <<"Bad Request">>},
     parameters : {<<>>} \cup {<<p>> : p \in RawParameters}]

\* the value of a key, or the zero value of the field when the key is missing
OrZero(v, zero) == IF v = <<>> THEN zero ELSE v[1]

\* variant: the two numbers are read from each other's key
DecodeParametersSwapped(raw) ==
    [MigrateToChatID |-> OrZero(raw.retry_after, 0),
     RetryAfter |-> OrZero(raw.migrate_to_chat_id, 0)]

\* ResponseParameters: two numbers, zero when not given
DecodeParameters(raw) ==
    [MigrateToChatID |-> OrZero(raw.migrate_to_chat_id, 0),
     RetryAfter |-> OrZero(raw.retry_after, 0)]

NotSpace(ch) == ch # " "

\* variant: the result is decoded and encoded again, which drops the
\* insignificant white space of the payload
DecodeResponseCompacted(raw) ==
    [Ok |-> OrZero(raw.ok, FALSE),
     Result |-> SelectSeq(OrZero(raw.result, <<>>), NotSpace),
     ErrorCode |-> OrZero(raw.error_code, 0),
     Description |-> OrZero(raw.description, ""),
     Parameters |-> IF raw.parameters = <<>> THEN <<>>
                    ELSE <<DecodeParameters(raw.parameters[1])>>]

\* APIResponse: every field is filled from its key and left at its zero
\* value (false, nil, 0, "", nil) without it; Result keeps the raw bytes
DecodeResponse(raw) ==
    [Ok |-> OrZero(raw.ok, FALSE),
     Result |-> OrZero(raw.result, <<>>),
     ErrorCode |-> OrZero(raw.error_code, 0),
     Description |-> OrZero(raw.description, ""),
     Parameters |-> IF raw.parameters = <<>> THEN <<>>
                    ELSE <<DecodeParameters(raw.parameters[1])>>]

EnvInit ==
    /\ ChanIdle
    /\ arg \in RawResponses
    /\ out = <<>>

\* json.Unmarshal(bytes, &apiResp) for one raw envelope object
UnmarshalResponse ==
    /\ out = <<>>
    /\ out' = <<DecodeResponse(arg)>>
    /\ UNCHANGED <<arg, chanVars>>

EnvNext == UnmarshalResponse

EnvSpec == EnvInit /\ [][EnvNext]_vars

\* the result, and the error fields, of a decoded envelope are populated
ResultPopulated(r) == r.Result # <<>>
ErrorPopulated(r) ==
    r.ErrorCode # 0 \/ r.Description # "" \/ r.Parameters # <<>>

\* C14: in every decoded envelope the result is populated exactly when Ok
\* is true and the error fields (code, description, parameters) are
\* populated exactly when Ok is false, so result and error fields are never
\* both present and never both absent.
EnvelopeExclusive ==
    out # <<>> =>
        /\ ResultPopulated(out[1]) <=> out[1].Ok
        /\ ErrorPopulated(out[1]) <=> ~out[1].Ok

\* ======================================================================
\* Further properties of Command and CommandArguments
\* ======================================================================

\* C28: the string Command() returns holds neither a space nor an '@', and
\* when it is not empty the text is a command (non-empty, first character
\* '/'), so IsCommand() is true of it.
CommandNameIsClean ==
    (arg.present /\ out.command.state = "ok") =>
        /\ \A i \in 1..Len(out.command.str) :
              out.command.str[i] \notin {" ", "@"}
        /\ out.command.str # <<>> =>
              /\ Len(arg.text) >= 1 /\ Head(arg.text) = "/"
              /\ (out.isCommand.state = "ok" => out.isCommand.bool)

\* Command() returned "start" for "/start@mybot hello world", IsCommand() true
ExampleCommandNamed ==
    /\ arg.present /\ arg.text = ExampleCommand
    /\ out.command = ReturnedStr(<<"s", "t", "a", "r", "t">>)
    /\ out.isCommand = ReturnedBool(TRUE)

\* the text up to its first space, or all of it when it has none
FirstToken(t) ==
    IF \E i \in 1..Len(t) : t[i] = " "
      THEN SubSeq(t, 1, (CHOOSE i \in 1..Len(t) :
                            t[i] = " " /\ \A j \in 1..(i - 1) : t[j] # " ") - 1)
      ELSE t

\* C29: for a command text whose first space-delimited token has no '@',
\* the text is "/" then Command() when it has no space, and "/" then
\* Command() then " " then CommandArguments() when it has one.
CommandSplitIsLossless ==
    (/\ arg.present
     /\ Len(arg.text) >= 1 /\ Head(arg.text) = "/"
     /\ \A i \in 1..Len(FirstToken(arg.text)) : FirstToken(arg.text)[i] # "@"
     /\ out.command.state = "ok"
     /\ out.arguments.state = "ok") =>
        IF \A i \in 1..Len(arg.text) : arg.text[i] # " "
          THEN arg.text = <<"/">> \o out.command.str
          ELSE arg.text =
                 <<"/">> \o out.command.str \o <<" ">> \o out.arguments.str

\* both parts returned for "/a  " (a second space opens the arguments)
SplitWithSpaceInArguments ==
    /\ arg.present /\ arg.text = <<"/", "a", " ", " ">>
    /\ out.command = ReturnedStr(<<"a">>)
    /\ out.arguments = ReturnedStr(<<" ">>)

\* ======================================================================
\* The predicates of Chat and ChatMember
\* ======================================================================

\* values of Chat.Type and ChatMember.Status: the documented ones, the
\* empty string of an undecoded field, and one the code does not know
ChatTypes == {"private", "group", "supergroup", "channel", "", "forum"}
MemberStatuses ==
    {"creator", "administrator", "member", "left", "kicked", "", "restricted"}

\* c.Type == "private" and the like
IsPrivate(c) == c.Type = "private"

\* variant: a supergroup also counts as a group
IsGroupOrSuperGroup(c) == c.Type = "group" \/ c.Type = "supergroup"

IsGroup(c) == c.Type = "group"
IsSuperGroup(c) == c.Type = "supergroup"
IsChannel(c) == c.Type = "channel"

\* chat.Status == "creator" and the like
IsCreator(m) == m.Status = "creator"

IsAdministrator(m) == m.Status = "administrator"
IsMember(m) == m.Status = "member"
HasLeft(m) == m.Status = "left"
WasKicked(m) == m.Status = "kicked"

ChatPredicates == {"IsPrivate", "IsGroup", "IsSuperGroup", "IsChannel"}
MemberPredicates ==
    {"IsCreator", "IsAdministrator", "IsMember", "HasLeft", "WasKicked"}

\* a Chat or a ChatMember, and no predicate called yet
ChatInit ==
    /\ ChanIdle
    /\ arg \in [kind : {"Chat"}, Type : ChatTypes, Status : {""}]
          \cup [kind : {"ChatMember"}, Type : {""}, Status : MemberStatuses]
    /\ out = [p \in (IF arg.kind = "Chat" THEN ChatPredicates
                     ELSE MemberPredicates) |-> Pending]

\* one call of each predicate on the Chat, or the ChatMember, of arg
CallIsPrivate ==
    /\ arg.kind = "Chat"
    /\ out["IsPrivate"].state = "pending"
    /\ out' = [out EXCEPT !["IsPrivate"] = ReturnedBool(IsPrivate(arg))]
    /\ UNCHANGED <<arg, chanVars>>

CallIsGroup ==
    /\ arg.kind = "Chat"
    /\ out["IsGroup"].state = "pending"
    /\ out' = [out EXCEPT !["IsGroup"] = ReturnedBool(IsGroup(arg))]
    /\ UNCHANGED <<arg, chanVars>>

CallIsSuperGroup ==
    /\ arg.kind = "Chat"
    /\ out["IsSuperGroup"].state = "pending"
    /\ out' = [out EXCEPT !["IsSuperGroup"] = ReturnedBool(IsSuperGroup(arg))]
    /\ UNCHANGED <<arg, chanVars>>

CallIsChannel ==
    /\ arg.kind = "Chat"
    /\ out["IsChannel"].state = "pending"
    /\ out' = [out EXCEPT !["IsChannel"] = ReturnedBool(IsChannel(arg))]
    /\ UNCHANGED <<arg, chanVars>>

CallIsCreator ==
    /\ arg.kind = "ChatMember"
    /\ out["IsCreator"].state = "pending"
    /\ out' = [out EXCEPT !["IsCreator"] = ReturnedBool(IsCreator(arg))]
    /\ UNCHANGED <<arg, chanVars>>

CallIsAdministrator ==
    /\ arg.kind = "ChatMember"
    /\ out["IsAdministrator"].state = "pending"
    /\ out' = [out EXCEPT !["IsAdministrator"] = ReturnedBool(IsAdministrator(arg))]
    /\ UNCHANGED <<arg, chanVars>>

CallIsMember ==
    /\ arg.kind = "ChatMember"
    /\ out["IsMember"].state = "pending"
    /\ out' = [out EXCEPT !["IsMember"] = ReturnedBool(IsMember(arg))]
    /\ UNCHANGED <<arg, chanVars>>

CallHasLeft ==
    /\ arg.kind = "ChatMember"
    /\ out["HasLeft"].state = "pending"
    /\ out' = [out EXCEPT !["HasLeft"] = ReturnedBool(HasLeft(arg))]
    /\ UNCHANGED <<arg, chanVars>>

CallWasKicked ==
    /\ arg.kind = "ChatMember"
    /\ out["WasKicked"].state = "pending"
    /\ out' = [out EXCEPT !["WasKicked"] = ReturnedBool(WasKicked(arg))]
    /\ UNCHANGED <<arg, chanVars>>

ChatNext ==
    \/ CallIsPrivate
    \/ CallIsGroup
    \/ CallIsSuperGroup
    \/ CallIsChannel
    \/ CallIsCreator
    \/ CallIsAdministrator
    \/ CallIsMember
    \/ CallHasLeft
    \/ CallWasKicked

ChatSpec == ChatInit /\ [][ChatNext]_vars

\* the predicates that have returned true
TruePredicates == {p \in DOMAIN out : out[p].state = "ok" /\ out[p].bool}

\* C30: of the predicates of one Chat, and of one ChatMember, at most one
\* returns true; for a Chat whose Type is "private", "group", "supergroup"
\* or "channel", exactly one of the four returns true.
PredicatesExclusive ==
    /\ Cardinality(TruePredicates) <= 1
    /\ (/\ arg.kind = "Chat"
        /\ arg.Type \in {"private", "group", "supergroup", "channel"}
        /\ \A p \in DOMAIN out : out[p].state = "ok")
          => Cardinality(TruePredicates) = 1

\* the four predicates have answered for a supergroup, IsSuperGroup with true
SuperGroupAnswered ==
    /\ arg.kind = "Chat" /\ arg.Type = "supergroup"
    /\ \A p \in DOMAIN out : out[p].state = "ok"
    /\ out["IsSuperGroup"].bool

\* ======================================================================
\* Clear with one consumer, and Clear on a closed stream
\* ======================================================================

\* consumer c is the only one that has called Clear or received
SoleConsumer(c) ==
    \A d \in Consumers \ {c} : calls[d] = 0 /\ received[d] = <<>>

\* the updates of q follow one another in send order, none left out
Contiguous(q) == \A i \in 1..(Len(q) - 1) : q[i + 1] = q[i] + 1

\* C26: with one consumer and a producer sending meanwhile, the updates one
\* Clear call has dropped are a contiguous run of the send order that starts
\* at the oldest update buffered at the call; none of them is newer than an
\* update still buffered; and what the consumer receives is in send order.
ClearDropsOldestRun ==
    \A c \in Consumers :
        SoleConsumer(c) =>
            /\ Contiguous(removed[c])
            /\ (snapshot[c] # <<>> /\ removed[c] # <<>>)
                  => Head(removed[c]) = Head(snapshot[c])
            /\ \A u \in Range(removed[c]) : \A b \in Range(buf) : u < b
            /\ \A i \in 1..Len(received[c]) : \A j \in 1..Len(received[c]) :
                  i < j => received[c][i] < received[c][j]

\* a Clear of the only consumer dropped two updates, one of them sent during
\* the call, returned, and the consumer then received a later update
DroppedRunThenReceived ==
    \E c \in Consumers :
        /\ SoleConsumer(c)
        /\ returned[c]
        /\ Len(removed[c]) >= 2
        /\ sentAtReturn[c] > sentAtCall[c]
        /\ received[c] # <<>>
        /\ received[c][Len(received[c])] > removed[c][Len(removed[c])]

\* ----------------------------------------------------------------------
\* Clear on a stream that is already closed
\* ----------------------------------------------------------------------

\* a consumer calls ch.Clear() after the producer has closed the channel
ClearCallClosed(c) ==
    /\ closed
    /\ pc[c] = "idle"
    /\ CallsOf(Consumers) < MaxClears
    /\ pc' = [pc EXCEPT ![c] = "len"]
    /\ calls' = [calls EXCEPT ![c] = @ + 1]
    /\ snapshot' = [snapshot EXCEPT ![c] = buf]
    /\ removed' = [removed EXCEPT ![c] = <<>>]
    /\ sentAtCall' = [sentAtCall EXCEPT ![c] = Len(sent)]
    /\ returned' = [returned EXCEPT ![c] = FALSE]
    /\ UNCHANGED <<buf, closed, received, eos, sentAtReturn>>
    /\ UNCHANGED prodVars
    /\ UNCHANGED pureVars

\* the program in which Clear is only called on a closed stream
ClosedClearNext ==
    \/ SendCall
    \/ SendDone
    \/ SendPanic
    \/ Close
    \/ \E c \in Consumers : RecvCall(c)
    \/ \E c \in Consumers : RecvDone(c)
    \/ \E c \in Consumers : ClearCallClosed(c)
    \/ \E c \in Consumers : ClearCheck(c)
    \/ \E c \in Consumers : ClearDrop(c)

\* a running Clear goes on to its next step when that step can be taken
ClosedClearSpec ==
    /\ Init
    /\ [][ClosedClearNext]_vars
    /\ \A c \in Consumers : WF_vars(ClearCheck(c)) /\ WF_vars(ClearDrop(c))

\* C27: a Clear called on a closed stream never waits in its receive, drops
\* only updates that were buffered at the call, returns (at once, dropping
\* nothing, when the buffer was empty) with the buffer empty and the stream
\* Closed, and always returns.
ClearOnClosedTerminates ==
    /\ [](\A c \in Consumers :
            /\ pc[c] = "drop" => ENABLED ClearDrop(c)
            /\ InClear(c) => closed
            /\ Len(removed[c]) <= Len(snapshot[c])
            /\ Range(removed[c]) \subseteq Range(snapshot[c]))
    /\ [][\A c \in Consumers :
            /\ (InClear(c) /\ ~InClear(c)') =>
                  buf' = <<>> /\ closed' /\ returned'[c]
            /\ (pc[c] = "len" /\ buf = <<>> /\ pc'[c] # "len") =>
                  pc'[c] = "idle" /\ returned'[c] /\ UNCHANGED buf]_vars
    /\ \A c \in Consumers : InClear(c) ~> returned[c]

\* Clear was called with two updates left on the closed stream, dropped
\* both and returned
ClearedClosedStream ==
    \E c \in Consumers :
        /\ closed /\ returned[c]
        /\ Len(snapshot[c]) = 2
        /\ removed[c] = snapshot[c]
        /\ buf = <<>>

\* ----------------------------------------------------------------------
\* Further properties of the decoded envelope
\* ----------------------------------------------------------------------

\* a second-stage decode of result bytes, as the caller of a method that
\* returns true or a list would do it: white space between tokens is
\* insignificant
SecondStage(bytes) ==
    LET tokens == SelectSeq(bytes, NotSpace)
    IN IF tokens = <<"t", "r", "u", "e">> THEN "true"
       ELSE IF tokens = <<"[", "]">> THEN "empty list"
       ELSE "error"

\* C22: for a successful envelope, Result is byte for byte the inner result
\* payload of the response, so decoding Result in a second stage gives what
\* decoding the inner payload gives.
ResultKeptRaw ==
    (out # <<>> /\ arg.ok = <<TRUE>> /\ arg.result # <<>>) =>
        /\ out[1].Ok
        /\ out[1].Result = arg.result[1]
        /\ SecondStage(out[1].Result) = SecondStage(arg.result[1])

\* a successful envelope whose payload holds white space has been decoded
SpacedResultDecoded ==
    /\ out # <<>>
    /\ arg.ok = <<TRUE>>
    /\ arg.result = <<(<<"[", " ", "]">>)>>
    /\ Len(out[1].Result) = Len(arg.result[1])

EmptyObject ==
    [ok |-> <<>>, result |-> <<>>, error_code |-> <<>>,
     description |-> <<>>, parameters |-> <<>>]

\* response bodies: a JSON object, a JSON value of another kind (an array),
\* or bytes that are not JSON; object is what an object body holds
ResponseBodies ==
    [kind : {"object"}, object : RawResponses]
        \cup [kind : {"array", "not json"}, object : {EmptyObject}]

\* json.Unmarshal(body, &apiResp): an error for bytes that are not JSON and
\* for a value that is not an object, apiResp left at its zero value; an
\* object is decoded field by field and gives no error, whatever its keys
UnmarshalResponseBody(body) ==
    IF body.kind = "object"
      THEN [err |-> FALSE, value |-> DecodeResponse(body.object)]
      ELSE [err |-> TRUE, value |-> DecodeResponse(EmptyObject)]

BodyInit ==
    /\ ChanIdle
    /\ arg \in ResponseBodies
    /\ out = <<>>

\* one response body is decoded
DecodeBody ==
    /\ out = <<>>
    /\ out' = <<UnmarshalResponseBody(arg)>>
    /\ UNCHANGED <<arg, chanVars>>

BodyNext == DecodeBody

BodySpec == BodyInit /\ [][BodyNext]_vars

\* C21: decoding a response body fails, and gives no envelope, exactly when
\* the body is not a well-formed object holding at least the ok flag; an
\* object without the ok flag is rejected, not decoded as a failed response.
MalformedEnvelopeRejected ==
    out # <<>> =>
        (out[1].err <=> ~(arg.kind = "object" /\ arg.object.ok # <<>>))

\* ----------------------------------------------------------------------
\* Update objects with unknown keys and with values of the wrong type
\* ----------------------------------------------------------------------

\* the raw object without the value of the key of field f: update_id reads
\* as 0 and a payload key as missing
WithoutKey(obj, f) ==
    [update_id |-> IF f = "UpdateID" THEN 0 ELSE obj.update_id,
     message |-> IF f = "Message" THEN <<>> ELSE obj.message,
     edited_message |->
         IF f = "EditedMessage" THEN <<>> ELSE obj.edited_message,
     channel_post |-> IF f = "ChannelPost" THEN <<>> ELSE obj.channel_post,
     edited_channel_post |->
         IF f = "EditedChannelPost" THEN <<>> ELSE obj.edited_channel_post,
     inline_query |-> IF f = "InlineQuery" THEN <<>> ELSE obj.inline_query,
     chosen_inline_result |->
         IF f = "ChosenInlineResult" THEN <<>> ELSE obj.chosen_inline_result,
     callback_query |->
         IF f = "CallbackQuery" THEN <<>> ELSE obj.callback_query]

\* update objects as they come off the wire: object holds the keys the
\* struct has tags for (at most one payload key), unknown says that the
\* object also has a key the struct has no tag for, and mistyped names the
\* field whose value has a JSON type the field cannot take ("none": all fit)
WireUpdates ==
    {w \in [object : {RawUpdateOf(id, f) : id \in {1, 2, 3}, f \in BatchKinds},
            unknown : BOOLEAN,
            mistyped : BatchKinds \cup {"UpdateID"}] :
        w.mistyped \in {"none", "UpdateID"} \cup RawPopulated(w.object)}

\* variant: a decoder told to refuse keys it has no field for
UnmarshalWireUpdateStrict(w) ==
    [err |-> w.mistyped # "none" \/ w.unknown,
     update |-> DecodeUpdate(WithoutKey(w.object, w.mistyped))]

\* variant: the error of a value of the wrong type is not reported
UnmarshalWireUpdateLenient(w) ==
    [err |-> FALSE,
     update |-> DecodeUpdate(WithoutKey(w.object, w.mistyped))]

\* json.Unmarshal(bytes, &update): a key without a field is ignored; a
\* value of the wrong type is skipped, the other fields are still filled,
\* and an error is returned
UnmarshalWireUpdate(w) ==
    [err |-> w.mistyped # "none",
     update |-> DecodeUpdate(WithoutKey(w.object, w.mistyped))]

WireInit ==
    /\ ChanIdle
    /\ arg \in WireUpdates
    /\ out = <<>>

\* one update object is decoded
DecodeWireUpdate ==
    /\ out = <<>>
    /\ out' = <<UnmarshalWireUpdate(arg)>>
    /\ UNCHANGED <<arg, chanVars>>

WireNext == DecodeWireUpdate

WireSpec == WireInit /\ [][WireNext]_vars

\* C24: an update object whose only payload key is one the struct does not
\* know decodes without an error to an Update with its identifier set and
\* every optional payload field nil.
UnknownPayloadTolerated ==
    (/\ out # <<>>
     /\ arg.unknown
     /\ RawPopulated(arg.object) = {}
     /\ arg.mistyped = "none") =>
        /\ ~out[1].err
        /\ out[1].update.UpdateID = arg.object.update_id
        /\ Populated(out[1].update) = {}

\* update 2 with only an unknown key has been decoded
UnknownPayloadDecoded ==
    /\ out # <<>>
    /\ arg.unknown
    /\ RawPopulated(arg.object) = {}
    /\ arg.mistyped = "none"
    /\ arg.object.update_id = 2
    /\ out[1].update.UpdateID = 2

\* ----------------------------------------------------------------------
\* A poll batch with invalid updates
\* ----------------------------------------------------------------------

\* update i of a batch: a message, a callback query, a message of the wrong
\* JSON type, or a message next to an update_id of the wrong JSON type
BatchElements(i) ==
    {[object |-> RawUpdateOf(i, "Message"), unknown |-> FALSE,
      mistyped |-> "none"],
     [object |-> RawUpdateOf(i, "CallbackQuery"), unknown |-> FALSE,
      mistyped |-> "none"],
     [object |-> RawUpdateOf(i, "Message"), unknown |-> FALSE,
      mistyped |-> "Message"],
     [object |-> RawUpdateOf(i, "Message"), unknown |-> FALSE,
      mistyped |-> "UpdateID"]}

WireBatches ==
    {<<a, b, c>> : a \in BatchElements(1), b \in BatchElements(2),
                   c \in BatchElements(3)}

\* out.got: the Updates the consumer has received; out.invalid: the
\* identifiers reported as InvalidUpdate
IngestInit ==
    /\ ChanIdle
    /\ arg \in WireBatches
    /\ out = [got |-> <<>>, invalid |-> <<>>]

\* the element of the batch the ingestion source decodes next
IngestPos == Len(sent) + Len(out.invalid) + 1

\* the next object does not decode: InvalidUpdate, nothing is sent
IngestSkip ==
    /\ IngestPos <= Len(arg)
    /\ UnmarshalWireUpdate(arg[IngestPos]).err
    /\ out' = [out EXCEPT !.invalid =
                  Append(@, UnmarshalWireUpdate(arg[IngestPos]).update.UpdateID)]
    /\ UNCHANGED <<arg, chanVars>>

\* the next object decodes: the Update is sent on the channel
IngestSend ==
    /\ IngestPos <= Len(arg)
    /\ ~UnmarshalWireUpdate(arg[IngestPos]).err
    /\ ChanCanSend(buf, closed)
    /\ buf' = Append(buf, UnmarshalWireUpdate(arg[IngestPos]).update)
    /\ sent' = Append(sent, UnmarshalWireUpdate(arg[IngestPos]).update)
    /\ UNCHANGED <<closed, prodPc, bufAtClose, pc, received, eos, clearVars,
                   pureVars>>

\* the consumer receives the next Update from the channel
IngestReceive ==
    /\ ChanRecvOk(buf, closed)
    /\ out' = [out EXCEPT !.got = Append(@, ChanFront(buf))]
    /\ buf' = ChanRest(buf)
    /\ UNCHANGED <<arg, closed, prodVars, pc, received, eos, clearVars>>

IngestNext == IngestSkip \/ IngestSend \/ IngestReceive

IngestSpec == IngestInit /\ [][IngestNext]_vars

\* of the first k objects of the batch: the Updates of the valid ones, and
\* the identifiers of the invalid ones (0 when update_id itself is invalid)
RECURSIVE ValidOf(_)
ValidOf(k) ==
    IF k = 0 THEN <<>>
    ELSE IF arg[k].mistyped = "none"
           THEN Append(ValidOf(k - 1), DecodeUpdate(arg[k].object))
           ELSE ValidOf(k - 1)

RECURSIVE InvalidOf(_)
InvalidOf(k) ==
    IF k = 0 THEN <<>>
    ELSE IF arg[k].mistyped = "none" THEN InvalidOf(k - 1)
    ELSE Append(InvalidOf(k - 1),
                IF arg[k].mistyped = "UpdateID" THEN 0
                ELSE arg[k].object.update_id)

\* C25: an invalid update of a batch is reported with its identifier and is
\* never sent; the valid updates before and after it are sent, and received,
\* in batch order; the consumer never receives a malformed update, and once
\* the batch is done and the buffer empty it has received every valid one.
InvalidUpdateSkippedAlone ==
    /\ sent = ValidOf(IngestPos - 1)
    /\ out.invalid = InvalidOf(IngestPos - 1)
    /\ out.got \o buf = sent
    /\ (IngestPos > Len(arg) /\ buf = <<>>) => out.got = ValidOf(Len(arg))

\* of a batch message, invalid message, callback query the consumer has
\* received updates 1 and 3, and update 2 was reported
MiddleUpdateSkipped ==
    /\ arg[1].mistyped = "none"
    /\ arg[2].mistyped = "Message"
    /\ arg[3].mistyped = "none" /\ arg[3].object.callback_query # <<>>
    /\ Len(out.got) = 2
    /\ out.got[1].UpdateID = 1 /\ out.got[2].UpdateID = 3
    /\ out.invalid = <<2>>

====
